---- MODULE Spec2Model ----
(***************************************************************************)
(* Model of the just-kick bucket-list tracker: the App component's item    *)
(* state, the two item stores (IndexedDB LocalDatabase and the             *)
(* localStorage-backed MockCloudService, which is the service the factory  *)
(* selects because firebaseConfig.apiKey is empty), the session gate, the  *)
(* location polling and the proximity evaluator.                           *)
(*                                                                         *)
(* Coordinates are in units of 1e-5 degree and all points lie on the       *)
(* meridian lng = 0, where the Haversine formula reduces to R * |dLat|.    *)
(* Distances are in centimetres.                                           *)
(***************************************************************************)
EXTENDS Integers, Sequences, FiniteSets, TLC

VARIABLES
  currentUser,      \* MockCloudService.currentUser
  authSubscribers,  \* MockCloudService.authSubscribers: number of callbacks registered
  authPending,      \* pending signInWithGoogle / signOut timers
  user,             \* App state `user`
  unsubscribe,      \* Data Sync effect: the closure variable `unsubscribe` is set
  subCount,         \* number of live setInterval(load, 2000) pollers
  isCloudLoading,   \* App state
  items,            \* App state `items` (array)
  entered,          \* history: the ids that have been in `items` so far
  localStore,       \* IndexedDB object store 'items', keyed by id
  cloudStore,       \* localStorage cloud_mock_<uid>_items (array)
  localQueue,       \* IndexedDB requests issued and not yet completed (FIFO)
  cloudQueue,       \* MockCloudService calls waiting on their 300 ms timer (FIFO)
  editingItem,      \* App state `editingItem`
  isTracking,       \* App state
  hiReqs,           \* high-accuracy getCurrentPosition requests in flight
  loReqs,           \* low-accuracy fallback requests in flight
  currentLocation,  \* App state
  geoError,         \* App state: the message shown, by error code (0: null)
  permissionStatus, \* App state
  permPending,      \* a Notification.requestPermission() prompt is open
  closurePermission,\* permissionStatus as captured by the memoised updateLocation
  sent,             \* per item id: the titles passed to sendNotification, in order
  shown,            \* per item id: number of Notification objects created
  thrown,           \* per item id: number of new Notification(...) calls that threw
  customBuckets,    \* App state
  customInterests,  \* App state
  importMsg,        \* SettingsModal state
  reading,          \* the backup a FileReader is reading for importBackup
  nextId,           \* next fresh id (crypto.randomUUID never repeats)
  now               \* Date.now()

vars == <<currentUser, authSubscribers, authPending, user, unsubscribe, subCount, isCloudLoading,
          items, entered, localStore, cloudStore, localQueue, cloudQueue, editingItem,
          isTracking, hiReqs, loReqs, currentLocation, geoError,
          permissionStatus, permPending, closurePermission, sent, shown, thrown,
          customBuckets, customInterests, importMsg, reading, nextId, now>>

----
\* Bounds of the exploration.
MaxItems == 1      \* items created by the handlers in one run
MaxSeed == 2       \* items already present when a tracker run starts
MaxNow == 2
MaxQueue == 2
MaxReqs == 1
MaxSent == 2       \* sendNotification calls recorded per item
MaxStored == 2     \* entries of the remote store when its methods are called directly

----
\* Program constants.
PROXIMITY_THRESHOLD == 2000
CmPerMeter == 100
\* R * pi / 180 with R = 6371e3: metres per degree of latitude, rounded.
MetersPerDegree == 111195
UnitsPerDegree == 100000

NoUser == "null"
MockUid == "mock_google_user"
NoItem == [id |-> 0]
NoLoc == [lat |-> -1, lng |-> -1]
Undefined == 0
NoGeoError == 0
\* GeolocationPositionError.code: PERMISSION_DENIED, POSITION_UNAVAILABLE, TIMEOUT
PERMISSION_DENIED == 1
POSITION_UNAVAILABLE == 2
TIMEOUT == 3
ErrorCodes == {PERMISSION_DENIED, POSITION_UNAVAILABLE, TIMEOUT}

NoFile == [name |-> "null"]
\* A parsed JSON value as Array.isArray sees it, with its elements.
JsonArray(v) == [isArray |-> TRUE, v |-> v]
NotAnArray == [isArray |-> FALSE, v |-> <<>>]
Tags == {"trip"}

Titles == {"a", "b"}
NewTitles == {"a"}
\* Latitudes (1e-5 degree) used for item targets and for location samples:
\* 1798 units = 1999.3 m and 1799 units = 2000.4 m from latitude 0.
TargetLats == {0}
SeedLats == {0, 1}
SampleLats == {1798, 1799}

Loc(lat) == [lat |-> lat, lng |-> 0]

Abs(x) == IF x < 0 THEN -x ELSE x

\* Distance in centimetres between two points of the same meridian.
calculateDistance(loc1, loc2) ==
  (Abs(loc2.lat - loc1.lat) * MetersPerDegree) \div (UnitsPerDegree \div CmPerMeter)

----
\* Array.prototype.sort.
\* Stable insertion of x into a sequence sorted by createdAt descending.
RECURSIVE InsertDesc(_, _)
InsertDesc(x, s) ==
  IF s = <<>> THEN <<x>>
  ELSE IF Head(s).createdAt >= x.createdAt
       THEN <<Head(s)>> \o InsertDesc(x, Tail(s))
       ELSE <<x>> \o s

\* dbItems.sort((a, b) => b.createdAt - a.createdAt)  (stable)
RECURSIVE SortByCreatedDesc(_)
SortByCreatedDesc(s) ==
  IF s = <<>> THEN <<>>
  ELSE InsertDesc(s[Len(s)], SortByCreatedDesc(SubSeq(s, 1, Len(s) - 1)))

----
\* The item stores.

\* IDBObjectStore.put: insert or replace by key.
StorePut(store, item) ==
  [i \in DOMAIN store \cup {item.id} |-> IF i = item.id THEN item ELSE store[i]]

\* IDBObjectStore.delete
StoreDelete(store, id) == [i \in DOMAIN store \ {id} |-> store[i]]

\* IDBObjectStore.getAll: the records in key order.
RECURSIVE StoreGetAll(_)
StoreGetAll(store) ==
  IF DOMAIN store = {} THEN <<>>
  ELSE LET k == CHOOSE i \in DOMAIN store : \A j \in DOMAIN store : i <= j
       IN <<store[k]>> \o StoreGetAll(StoreDelete(store, k))

EmptyStore == [i \in {} |-> NoItem]

\* data.items.forEach(item => store.put(item))
RECURSIVE StorePutAll(_, _)
StorePutAll(store, newItems) ==
  IF newItems = <<>> THEN store
  ELSE StorePutAll(StorePut(store, Head(newItems)), Tail(newItems))

\* items.map(i => i.id === item.id ? item : i)
ReplaceById(s, item) ==
  [i \in DOMAIN s |-> IF s[i].id = item.id THEN item ELSE s[i]]

\* items.filter(i => i.id !== id)
RECURSIVE RemoveById(_, _)
\* The ids of an item array.
ItemIds(s) == {s[k].id : k \in DOMAIN s}

\* A filter that drops the last entry when no entry has the id.
RemoveByIdElseLast(s, id) ==
  LET keep == SelectSeq(s, LAMBDA x : x.id # id)
  IN IF s # <<>> /\ Len(keep) = Len(s) THEN SubSeq(s, 1, Len(s) - 1) ELSE keep

RemoveById(s, id) ==
  IF s = <<>> THEN <<>>
  ELSE (IF Head(s).id # id THEN <<Head(s)>> ELSE <<>>) \o RemoveById(Tail(s), id)

\* MockCloudService.addItem: items.unshift({ ...item, userId })
MockAdd(s, userId, item) == <<[item EXCEPT !.userId = userId]>> \o s

\* An entry of localQueue / cloudQueue.
Op(k, item, cont, rest) == [k |-> k, item |-> item, cont |-> cont, rest |-> rest]

\* A new item that is created with its latch already set.
NewItemAlreadyNotified(id, title, lat, u) ==
  [id |-> id, title |-> title, targetLocation |-> Loc(lat),
   completed |-> FALSE, completedAt |-> Undefined, notified |-> TRUE,
   createdAt |-> now, userId |-> u]

\* const newItem = { id: crypto.randomUUID(), ..., completed: false, notified: false, ... }
NewItem(id, title, lat, u) ==
  [id |-> id, title |-> title, targetLocation |-> Loc(lat),
   completed |-> FALSE, completedAt |-> Undefined, notified |-> FALSE,
   createdAt |-> now, userId |-> u]

----
\* The Proximity Evaluator.

EligibleIgnoringCompleted(item, currentLoc) ==
  /\ ~item.notified
  /\ calculateDistance(currentLoc, item.targetLocation) < PROXIMITY_THRESHOLD * CmPerMeter

EligibleIgnoringNotified(item, currentLoc) ==
  /\ ~item.completed
  /\ calculateDistance(currentLoc, item.targetLocation) < PROXIMITY_THRESHOLD * CmPerMeter

Eligible(item, currentLoc) ==
  /\ ~(item.completed \/ item.notified)
  /\ calculateDistance(currentLoc, item.targetLocation) < PROXIMITY_THRESHOLD * CmPerMeter

checkProximityWithoutLatch(prevItems, currentLoc) == prevItems

\* An updater that latches only while notifications are permitted.
checkProximityWhenPermitted(prevItems, currentLoc) ==
  [i \in DOMAIN prevItems |->
     IF Eligible(prevItems[i], currentLoc) /\ permissionStatus = "granted"
     THEN [prevItems[i] EXCEPT !.notified = TRUE]
     ELSE prevItems[i]]

\* The updater passed to setItems by checkProximity.
checkProximity(prevItems, currentLoc) ==
  [i \in DOMAIN prevItems |->
     IF Eligible(prevItems[i], currentLoc)
     THEN [prevItems[i] EXCEPT !.notified = TRUE]
     ELSE prevItems[i]]

\* The sendNotification(item) calls made by one run of the updater for one id:
\* the titles of the items passed, in array order.
RECURSIVE AlertsFor(_, _, _)
AlertsFor(prevItems, currentLoc, id) ==
  IF prevItems = <<>> THEN <<>>
  ELSE (IF Head(prevItems).id = id /\ Eligible(Head(prevItems), currentLoc)
        THEN <<Head(prevItems).title>> ELSE <<>>)
       \o AlertsFor(Tail(prevItems), currentLoc, id)

\* The index of the first item of the array for which the updater calls
\* sendNotification (defined when there is one).
FirstEligible(prevItems, currentLoc) ==
  CHOOSE i \in DOMAIN prevItems :
    /\ Eligible(prevItems[i], currentLoc)
    /\ \A j \in 1..(i - 1) : ~Eligible(prevItems[j], currentLoc)

\* updateLocation is memoised with an empty dependency list, so the
\* sendNotification it reaches is the one of the first render, whose
\* permissionStatus is the initial state value.
MountPermission == "default"

PermissionStates == {"default", "granted", "denied"}

Ids == 1..(IF MaxItems > MaxSeed THEN MaxItems ELSE MaxSeed)

----
\* The state once the mount effects have run: the Auth Listener delivered the
\* restored session (or none); the first run of the Data Sync effect, with
\* user = null, issued localDB.getAllItems(); with a restored session the
\* re-run of the effect subscribed to the remote store, whose first load()
\* delivered its (empty) item list.
Init ==
  /\ currentUser \in {NoUser, MockUid}      \* constructor: restored session or none
  /\ authSubscribers = 1                   \* Auth Listener effect: onAuthChange(setUser)
  /\ authPending = {}
  /\ user = currentUser                     \* Auth Listener effect: callback(currentUser)
  /\ localQueue = <<Op("load", NoItem, "none", <<>>)>>  \* first effect run, user = null
  /\ unsubscribe = (currentUser # NoUser)
  /\ subCount = IF currentUser # NoUser THEN 1 ELSE 0
  /\ isCloudLoading = (currentUser = NoUser)
  /\ items = <<>>
  /\ entered = {}
  /\ localStore = EmptyStore
  /\ cloudStore = <<>>
  /\ cloudQueue = <<>>
  /\ editingItem = NoItem
  /\ isTracking = FALSE
  /\ hiReqs = 0
  /\ loReqs = 0
  /\ currentLocation = NoLoc
  /\ geoError = NoGeoError
  /\ permissionStatus = "default"           \* Notification.permission of a fresh profile
  /\ permPending = FALSE
  /\ closurePermission = MountPermission
  /\ sent = [i \in Ids |-> <<>>]
  /\ shown = [i \in Ids |-> 0]
  /\ thrown = [i \in Ids |-> 0]
  /\ customBuckets = <<>>                   \* localStorage jk_custom_buckets: none saved
  /\ customInterests = <<>>                 \* localStorage jk_custom_interests: none saved
  /\ importMsg = "null"
  /\ reading = NoFile
  /\ nextId = 1
  /\ now = 1

authVars == <<currentUser, authSubscribers, authPending, user>>
syncVars == <<unsubscribe, subCount, isCloudLoading>>
storeVars == <<localStore, cloudStore>>
queueVars == <<localQueue, cloudQueue>>
trackVars == <<isTracking, hiReqs, loReqs, currentLocation, geoError>>
alertVars == <<permissionStatus, permPending, closurePermission, sent, shown, thrown>>
settingsVars == <<customBuckets, customInterests, importMsg>>
importVars == <<customBuckets, customInterests, importMsg, reading>>

----
\* Session / Identity Gate and the Data Sync effect.

CleanupWithoutUnsubscribe(n) == n

\* The effect's cleanup: if (unsubscribe) unsubscribe()  -> clearInterval
Cleanup(n) == IF unsubscribe THEN n - 1 ELSE n

\* The Data Sync effect re-run for a new value u of `user`: cleanup of the
\* previous run, then loadItems().
DataSyncEffect(u) ==
  IF u # NoUser
  THEN /\ subCount' = Cleanup(subCount) + 1     \* setInterval(load, 2000)
       /\ unsubscribe' = TRUE
       /\ items' = cloudStore                   \* load() -> callback(items)
       /\ entered' = entered \cup ItemIds(items')
       /\ isCloudLoading' = FALSE
       /\ UNCHANGED localQueue
  ELSE /\ subCount' = Cleanup(subCount)
       /\ unsubscribe' = FALSE
       /\ isCloudLoading' = TRUE
       /\ localQueue' = Append(localQueue, Op("load", NoItem, "none", <<>>))
       /\ UNCHANGED <<items, entered>>

\* The App is mounted while its Auth Listener effect holds its registration:
\* the registration is made by the mount effect and removed by its cleanup.
Mounted == authSubscribers > 0

\* AuthModal.handleGoogleSignIn -> cloudService.signInWithGoogle()
SignInStart ==
  /\ Mounted
  /\ user = NoUser
  /\ "signIn" \notin authPending
  /\ authPending' = authPending \cup {"signIn"}
  /\ UNCHANGED <<currentUser, authSubscribers, user, syncVars, items, entered, storeVars, queueVars, editingItem,
                 trackVars, alertVars, nextId, now, importVars>>

\* signInWithGoogle after its 800 ms: currentUser is a new object, notifyAuth().
SignInDone ==
  /\ "signIn" \in authPending
  /\ authPending' = authPending \ {"signIn"}
  /\ currentUser' = MockUid
  /\ IF authSubscribers > 0                 \* notifyAuth: authSubscribers.forEach(cb => cb(user))
     THEN /\ user' = MockUid
          /\ DataSyncEffect(MockUid)
     ELSE UNCHANGED <<user, syncVars, items, entered, localQueue>>
  /\ UNCHANGED <<authSubscribers, storeVars, cloudQueue, editingItem, trackVars, alertVars, nextId, now, importVars>>

\* handleSignOut: cloudService.signOut(); setIsTracking(false); setGeoError(null)
handleSignOut ==
  /\ Mounted
  /\ user # NoUser
  /\ authPending' = authPending \cup {"signOut"}
  /\ isTracking' = FALSE
  /\ geoError' = NoGeoError
  /\ UNCHANGED <<currentUser, authSubscribers, user, syncVars, items, entered, storeVars, queueVars, editingItem,
                 hiReqs, loReqs, currentLocation, alertVars,
                 nextId, now, importVars>>

\* signOut after its 400 ms: currentUser = null, notifyAuth(). setUser(null)
\* on a null state is a no-op for React, so the effect does not re-run.
SignOutDone ==
  /\ "signOut" \in authPending
  /\ authPending' = authPending \ {"signOut"}
  /\ currentUser' = NoUser
  /\ IF authSubscribers > 0 /\ user # NoUser
     THEN /\ Len(localQueue) < MaxQueue
          /\ user' = NoUser
          /\ DataSyncEffect(NoUser)
     ELSE UNCHANGED <<user, syncVars, items, entered, localQueue>>
  /\ UNCHANGED <<authSubscribers, storeVars, cloudQueue, editingItem, trackVars, alertVars, nextId, now, importVars>>

\* A poller that clearInterval does not stop.
PollerNeverCleared(n) == TRUE

\* setInterval(load, 2000) fires while an interval exists that clearInterval
\* has not been called on.
PollerLive(n) == n > 0

\* The App unmounts: the cleanups of its effects run. Auth Listener:
\* unsubscribe() filters the callback out of authSubscribers; Data Sync:
\* if (unsubscribe) unsubscribe(); Polling Effect: clearInterval. React
\* ignores the state setters of an unmounted component, so from here on the
\* App state keeps its last value and only the services' timers go on.
Unmount ==
  /\ Mounted
  /\ authSubscribers' = 0
  /\ subCount' = Cleanup(subCount)
  /\ unsubscribe' = FALSE
  /\ UNCHANGED <<currentUser, authPending, user, isCloudLoading, items, entered, storeVars,
                 queueVars, editingItem, trackVars, alertVars, nextId, now, importVars>>

\* The poller of subscribeToItems: load() -> callback(items) -> setItems
SubscriptionPush ==
  /\ PollerLive(subCount)
  /\ items' = cloudStore
  /\ entered' = entered \cup ItemIds(items')
  /\ isCloudLoading' = FALSE
  /\ UNCHANGED <<authVars, unsubscribe, subCount, storeVars, queueVars, editingItem,
                 trackVars, alertVars, nextId, now, importVars>>

----
\* CRUD handlers: the part of each handler before its first await.

Enqueue(op) ==
  IF user # NoUser
  THEN /\ Len(cloudQueue) < MaxQueue
       /\ cloudQueue' = Append(cloudQueue, op)
       /\ UNCHANGED localQueue
  ELSE /\ Len(localQueue) < MaxQueue
       /\ localQueue' = Append(localQueue, op)
       /\ UNCHANGED cloudQueue

\* handleSaveItem, no editingItem: a new item; AddModal then calls onClose().
handleSaveNew(title, lat) ==
  /\ editingItem = NoItem
  /\ nextId <= MaxItems
  /\ Enqueue(Op(IF user # NoUser THEN "add" ELSE "save",
                NewItem(nextId, title, lat, user), "add", <<>>))
  /\ nextId' = nextId + 1
  /\ UNCHANGED <<authVars, syncVars, items, entered, storeVars, editingItem, trackVars,
                 alertVars, now, importVars>>

\* initiateEdit(item): the item object of the current render is captured.
initiateEdit(i) ==
  /\ editingItem = NoItem
  /\ editingItem' = items[i]
  /\ UNCHANGED <<authVars, syncVars, items, entered, storeVars, queueVars, trackVars,
                 alertVars, nextId, now, importVars>>

\* handleModalClose
handleModalClose ==
  /\ editingItem # NoItem
  /\ editingItem' = NoItem
  /\ UNCHANGED <<authVars, syncVars, items, entered, storeVars, queueVars, trackVars,
                 alertVars, nextId, now, importVars>>

\* handleSaveItem with editingItem set; AddModal then calls onClose().
handleSaveEdit(title, lat) ==
  /\ editingItem # NoItem
  /\ LET updatedItem == [editingItem EXCEPT !.title = title, !.targetLocation = Loc(lat)]
     IN Enqueue(Op(IF user # NoUser THEN "update" ELSE "save", updatedItem, "edit", <<>>))
  /\ editingItem' = NoItem
  /\ UNCHANGED <<authVars, syncVars, items, entered, storeVars, trackVars, alertVars,
                 nextId, now, importVars>>

completedAtKept(item, completed) == item.completedAt

\* completedAt: completed ? Date.now() : undefined
completedAtFor(item, completed) == IF completed THEN now ELSE Undefined

\* toggleComplete(id): items.find on the items of the current render.
toggleComplete(i) ==
  /\ \A j \in 1..(i - 1) : items[j].id # items[i].id
  /\ LET item == items[i]
         completed == ~item.completed
         updatedItem == [item EXCEPT !.completed = completed,
                                     !.completedAt = completedAtFor(item, completed)]
     IN Enqueue(Op(IF user # NoUser THEN "update" ELSE "save", updatedItem, "toggle", <<>>))
  /\ UNCHANGED <<authVars, syncVars, items, entered, storeVars, editingItem, trackVars,
                 alertVars, nextId, now, importVars>>

\* deleteItem(id)
deleteItem(i) ==
  /\ Enqueue(Op("delete", [id |-> items[i].id], "none", <<>>))
  /\ UNCHANGED <<authVars, syncVars, items, entered, storeVars, editingItem, trackVars,
                 alertVars, nextId, now, importVars>>

\* ingestItems(itemsData) with n entries (demo loaders, text and Takeout import).
NewItems(n, title, lat) ==
  [k \in 1..n |-> NewItem(nextId + k - 1, title, lat, user)]

ingestItems(n, title, lat) ==
  /\ nextId + n - 1 <= MaxItems
  /\ LET newItems == NewItems(n, title, lat)
     IN Enqueue(Op(IF user # NoUser THEN "add" ELSE "save",
                   Head(newItems), "ingest", Tail(newItems)))
  /\ nextId' = nextId + n
  /\ isCloudLoading' = IF user # NoUser THEN TRUE ELSE isCloudLoading
  /\ UNCHANGED <<authVars, unsubscribe, subCount, items, entered, storeVars, editingItem,
                 trackVars, alertVars, now, importVars>>

----
\* Completion of the oldest IndexedDB request and the code after its await.

LocalComplete ==
  /\ localQueue # <<>>
  /\ LET op == Head(localQueue)
         rest == Tail(localQueue)
     IN CASE op.k = "load" ->
               \* loadItems: getAllItems, sort, setItems, finally setIsCloudLoading(false)
               /\ items' = SortByCreatedDesc(StoreGetAll(localStore))
               /\ entered' = entered \cup ItemIds(items')
               /\ isCloudLoading' = FALSE
               /\ localQueue' = rest
               /\ UNCHANGED <<localStore, editingItem, settingsVars>>
          [] op.k = "reload" ->
               \* ingestItems: getAllItems, sort, setItems
               /\ items' = SortByCreatedDesc(StoreGetAll(localStore))
               /\ entered' = entered \cup ItemIds(items')
               /\ localQueue' = rest
               /\ UNCHANGED <<localStore, editingItem, isCloudLoading, settingsVars>>
          [] op.k = "delete" ->
               /\ localStore' = StoreDelete(localStore, op.item.id)
               /\ items' = RemoveById(items, op.item.id)
               /\ entered' = entered \cup ItemIds(items')
               /\ localQueue' = rest
               /\ UNCHANGED <<editingItem, isCloudLoading, settingsVars>>
          [] op.k = "save" /\ op.cont = "add" ->
               /\ localStore' = StorePut(localStore, op.item)
               /\ items' = <<op.item>> \o items
               /\ entered' = entered \cup ItemIds(items')
               /\ localQueue' = rest
               /\ UNCHANGED <<editingItem, isCloudLoading, settingsVars>>
          [] op.k = "save" /\ op.cont = "edit" ->
               /\ localStore' = StorePut(localStore, op.item)
               /\ items' = ReplaceById(items, op.item)
               /\ entered' = entered \cup ItemIds(items')
               /\ editingItem' = NoItem
               /\ localQueue' = rest
               /\ UNCHANGED <<isCloudLoading, settingsVars>>
          [] op.k = "save" /\ op.cont = "toggle" ->
               /\ localStore' = StorePut(localStore, op.item)
               /\ items' = ReplaceById(items, op.item)
               /\ entered' = entered \cup ItemIds(items')
               /\ localQueue' = rest
               /\ UNCHANGED <<editingItem, isCloudLoading, settingsVars>>
          [] op.k = "save" /\ op.cont = "ingest" ->
               \* for (const item of newItems) await localDB.saveItem(item); then getAllItems
               /\ localStore' = StorePut(localStore, op.item)
               /\ localQueue' = Append(rest,
                    IF op.rest # <<>> THEN Op("save", Head(op.rest), "ingest", Tail(op.rest))
                    ELSE Op("reload", NoItem, "none", <<>>))
               /\ UNCHANGED <<items, entered, editingItem, isCloudLoading, settingsVars>>
          [] op.k = "import" ->
               \* importBackup: store.clear(); data.items.forEach(item => store.put(item));
               \* oncomplete -> resolve(data) -> handleFileChange: onImport(data)
               \* (handleDataImport), setImportMsg success. With items not an
               \* array forEach has thrown and the promise is already rejected;
               \* the transaction commits the clear.
               /\ localStore' = StorePutAll(EmptyStore, op.data.items.v)
               /\ localQueue' = rest
               /\ IF op.data.items.isArray
                  THEN /\ items' = op.data.items.v
                       /\ entered' = entered \cup ItemIds(items')
                       /\ customBuckets' = IF op.data.customBuckets.isArray
                                           THEN op.data.customBuckets.v ELSE customBuckets
                       /\ customInterests' = IF op.data.customInterests.isArray
                                             THEN op.data.customInterests.v ELSE customInterests
                       /\ importMsg' = "success"
                  ELSE UNCHANGED <<items, entered, settingsVars>>
               /\ UNCHANGED <<editingItem, isCloudLoading>>
  /\ UNCHANGED <<authVars, unsubscribe, subCount, cloudStore, cloudQueue, trackVars,
                 alertVars, nextId, now, reading>>

\* The oldest IndexedDB request fails (quota, corruption): request.onerror
\* rejects the promise and the store is left as it was. loadItems catches the
\* rejection (console.error) and its finally clears isCloudLoading;
\* handleSaveItem, toggleComplete, deleteItem and ingestItems have no catch,
\* so the code after their await does not run; handleFileChange catches the
\* rejection of importBackup and sets the error message.
LocalFail ==
  /\ localQueue # <<>>
  /\ localQueue' = Tail(localQueue)
  /\ isCloudLoading' = IF Head(localQueue).k = "load" THEN FALSE ELSE isCloudLoading
  /\ importMsg' = IF Head(localQueue).k = "import" THEN "error" ELSE importMsg
  /\ UNCHANGED <<authVars, unsubscribe, subCount, items, entered, storeVars, cloudQueue,
                 editingItem, trackVars, alertVars, customBuckets, customInterests,
                 reading, nextId, now>>

\* Completion of the oldest MockCloudService call and the code after its await.
CloudComplete ==
  /\ cloudQueue # <<>>
  /\ LET op == Head(cloudQueue)
         rest == Tail(cloudQueue)
     IN CASE op.k = "add" /\ op.cont = "add" ->
               /\ cloudStore' = MockAdd(cloudStore, MockUid, op.item)
               /\ cloudQueue' = rest
               /\ UNCHANGED <<editingItem, isCloudLoading>>
          [] op.k = "add" /\ op.cont = "ingest" ->
               \* for (const item of newItems) await addItem; setIsCloudLoading(false)
               /\ cloudStore' = MockAdd(cloudStore, MockUid, op.item)
               /\ IF op.rest # <<>>
                  THEN /\ cloudQueue' = Append(rest, Op("add", Head(op.rest), "ingest", Tail(op.rest)))
                       /\ UNCHANGED isCloudLoading
                  ELSE /\ cloudQueue' = rest
                       /\ isCloudLoading' = (IF Mounted THEN FALSE ELSE isCloudLoading)
               /\ UNCHANGED editingItem
          [] op.k = "update" ->
               /\ cloudStore' = ReplaceById(cloudStore, op.item)
               /\ editingItem' = IF op.cont = "edit" /\ Mounted THEN NoItem ELSE editingItem
               /\ cloudQueue' = rest
               /\ UNCHANGED isCloudLoading
          [] op.k = "delete" ->
               /\ cloudStore' = RemoveById(cloudStore, op.item.id)
               /\ cloudQueue' = rest
               /\ UNCHANGED <<editingItem, isCloudLoading>>
  /\ UNCHANGED <<authVars, unsubscribe, subCount, items, entered, localStore, localQueue,
                 trackVars, alertVars, nextId, now, importVars>>

----
\* Settings: custom tags and backup import.

\* handleAddBucket: if (newBucket.trim() && !customBuckets.includes(...))
handleAddBucket(tag) ==
  /\ \A k \in DOMAIN customBuckets : customBuckets[k] # tag
  /\ customBuckets' = Append(customBuckets, tag)
  /\ UNCHANGED <<authVars, syncVars, items, entered, storeVars, queueVars, editingItem, trackVars,
                 alertVars, customInterests, importMsg, reading, nextId, now>>

\* handleAddInterest
handleAddInterest(tag) ==
  /\ \A k \in DOMAIN customInterests : customInterests[k] # tag
  /\ customInterests' = Append(customInterests, tag)
  /\ UNCHANGED <<authVars, syncVars, items, entered, storeVars, queueVars, editingItem, trackVars,
                 alertVars, customBuckets, importMsg, reading, nextId, now>>

\* An item of an exported backup.
BackupItem ==
  [id |-> 1, title |-> "b", targetLocation |-> Loc(0),
   completed |-> TRUE, completedAt |-> 1, notified |-> FALSE,
   createdAt |-> 1, userId |-> NoUser]

\* The parsed content of the files offered to the import.
BackupFiles ==
  [items : {NotAnArray, JsonArray(<<>>), JsonArray(<<BackupItem>>)},
   customBuckets : {NotAnArray, JsonArray(<<"food">>)},
   customInterests : {NotAnArray, JsonArray(<<"food">>)}]

\* handleFileChange up to its await: importBackup(file) starts reader.readAsText(file).
handleFileChange(file) ==
  /\ reading = NoFile
  /\ reading' = file
  /\ UNCHANGED <<authVars, syncVars, items, entered, storeVars, queueVars, editingItem, trackVars,
                 alertVars, settingsVars, nextId, now>>

ValidBackupAny(data) == TRUE

\* importBackup: if (!Array.isArray(data.items)) throw ...
ValidBackup(data) == data.items.isArray

\* reader.onload of importBackup. A throw inside the try block rejects the
\* promise, and handleFileChange's catch sets the error message.
readerOnload ==
  /\ reading # NoFile
  /\ reading' = NoFile
  /\ IF ValidBackup(reading)
     THEN /\ Len(localQueue) < MaxQueue
          /\ localQueue' = Append(localQueue,
               [k |-> "import", item |-> NoItem, cont |-> "import", rest |-> <<>>,
                data |-> reading])
          /\ importMsg' = IF reading.items.isArray THEN importMsg ELSE "error"
     ELSE /\ importMsg' = "error"
          /\ UNCHANGED localQueue
  /\ UNCHANGED <<authVars, syncVars, items, entered, storeVars, cloudQueue, editingItem, trackVars,
                 alertVars, customBuckets, customInterests, nextId, now>>

----
\* Location Sampler.

\* The Polling Effect's interval exists from the effect run with isTracking
\* true until the cleanup of that run (clearInterval).
IntervalAlwaysMounted == TRUE

IntervalMounted == isTracking /\ Mounted

\* toggleTracking; on enabling, the Polling Effect runs updateLocation() and
\* setInterval, and requestNotificationPermission() opens the prompt.
toggleTracking ==
  /\ IF isTracking
     THEN /\ isTracking' = FALSE
          /\ geoError' = NoGeoError
          /\ UNCHANGED <<hiReqs, permPending>>
     ELSE /\ hiReqs < MaxReqs
          /\ isTracking' = TRUE
          /\ hiReqs' = hiReqs + 1
          /\ permPending' = (permPending \/ permissionStatus = "default")
          /\ UNCHANGED geoError
  /\ UNCHANGED <<authVars, syncVars, items, entered, storeVars, queueVars, editingItem, loReqs,
                 currentLocation, permissionStatus,
                 closurePermission, sent, shown, thrown, nextId, now, importVars>>

\* requestNotificationPermission after its await: setPermissionStatus(permission)
requestPermissionDone(permission) ==
  /\ permPending
  /\ permPending' = FALSE
  /\ permissionStatus' = permission
  /\ UNCHANGED <<authVars, syncVars, items, entered, storeVars, queueVars, editingItem, trackVars,
                 closurePermission, sent, shown, thrown, nextId, now, importVars>>

\* window.setInterval(updateLocation, 10000) firing while the effect is mounted.
IntervalTick ==
  /\ IntervalMounted
  /\ hiReqs < MaxReqs
  /\ hiReqs' = hiReqs + 1
  /\ UNCHANGED <<authVars, syncVars, items, entered, storeVars, queueVars, editingItem, isTracking,
                 loReqs, currentLocation, geoError, alertVars,
                 nextId, now, importVars>>

sendNotificationUngated(permission, throws) ==
  IF throws THEN "caught" ELSE "shown"

sendNotificationUncaught(permission, throws) ==
  IF permission = "granted"
  THEN (IF throws THEN "uncaught" ELSE "shown")
  ELSE "skipped"

\* sendNotification(item) under the permissionStatus of its closure, when the
\* Notification constructor would throw or not: what the call does.
sendNotification(permission, throws) ==
  IF permission = "granted"
  THEN (IF throws THEN "caught" ELSE "shown")
  ELSE "skipped"

\* Whether new Notification(...) throws is the environment's choice, and
\* it is a choice only where the constructor is reached.
ThrowOutcomes == IF closurePermission = "granted" THEN BOOLEAN ELSE {FALSE}

GeoErrorKeptBySuccess(err) == err

\* handleSuccess: setGeoError(null)
GeoErrorAfterSuccess(err) == NoGeoError

\* handleSuccess(position) for a pending request (lowAcc: the fallback request).
\* throws: the Notification constructor throws in this environment. An
\* exception leaving sendNotification would leave prevItems.map and the
\* updater, and no new item array would be set.
handleSuccess(lowAcc, lat, throws) ==
  /\ IF lowAcc THEN loReqs > 0 /\ loReqs' = loReqs - 1 /\ UNCHANGED hiReqs
               ELSE hiReqs > 0 /\ hiReqs' = hiReqs - 1 /\ UNCHANGED loReqs
  /\ geoError' = GeoErrorAfterSuccess(geoError)
  /\ currentLocation' = Loc(lat)
  /\ \A id \in Ids : Len(sent[id]) + Len(AlertsFor(items, Loc(lat), id)) <= MaxSent
  /\ LET outcome == sendNotification(closurePermission, throws)
         calls(id) == Len(AlertsFor(items, Loc(lat), id))
         aborted == outcome = "uncaught" /\ \E id \in Ids : calls(id) > 0
     IN /\ items' = IF aborted THEN items ELSE checkProximity(items, Loc(lat))
        /\ sent' = [id \in Ids |->
                      IF aborted
                      THEN (IF id = items[FirstEligible(items, Loc(lat))].id
                            THEN Append(sent[id], items[FirstEligible(items, Loc(lat))].title)
                            ELSE sent[id])
                      ELSE sent[id] \o AlertsFor(items, Loc(lat), id)]
        /\ shown' = [id \in Ids |-> shown[id] + IF outcome = "shown" THEN calls(id) ELSE 0]
        /\ thrown' = [id \in Ids |-> thrown[id] + IF outcome = "caught" THEN calls(id) ELSE 0]
  /\ UNCHANGED <<authVars, syncVars, entered, storeVars, queueVars, editingItem, isTracking,
                 permissionStatus, permPending, closurePermission, nextId, now, importVars>>

ShouldRetryAnyFailure(code, isLowAccuracy) == ~isLowAccuracy

ShouldRetryNever(code, isLowAccuracy) == FALSE

\* handleError: if (error.code === 3 && !isLowAccuracy)
ShouldRetry(code, isLowAccuracy) == code = TIMEOUT /\ ~isLowAccuracy

DisablesTrackingNever(code) == FALSE

\* handleError, case 1: setIsTracking(false)
DisablesTracking(code) == code = PERMISSION_DENIED

\* handleError(error, isLowAccuracy); the retry is a low-accuracy
\* getCurrentPosition whose error callback is handleError(err, true).
handleError(lowAcc, code) ==
  /\ IF lowAcc THEN loReqs > 0 ELSE hiReqs > 0
  /\ IF ShouldRetry(code, lowAcc)
     THEN /\ lowAcc \/ loReqs < MaxReqs
          /\ hiReqs' = IF lowAcc THEN hiReqs ELSE hiReqs - 1
          /\ loReqs' = IF lowAcc THEN loReqs ELSE loReqs + 1
          /\ UNCHANGED <<isTracking, geoError>>
     ELSE /\ IF lowAcc THEN loReqs' = loReqs - 1 /\ UNCHANGED hiReqs
                       ELSE hiReqs' = hiReqs - 1 /\ UNCHANGED loReqs
          /\ isTracking' = IF DisablesTracking(code) THEN FALSE ELSE isTracking
          /\ geoError' = code
  /\ UNCHANGED <<authVars, syncVars, items, entered, storeVars, queueVars, editingItem,
                 currentLocation, alertVars, nextId, now, importVars>>

\* The Dismiss button of the error banner: setGeoError(null)
dismissGeoError ==
  /\ geoError # NoGeoError
  /\ geoError' = NoGeoError
  /\ UNCHANGED <<authVars, syncVars, items, entered, storeVars, queueVars, editingItem, isTracking,
                 hiReqs, loReqs, currentLocation, alertVars,
                 nextId, now, importVars>>

\* Time passes.
Tick ==
  /\ now < MaxNow
  /\ now' = now + 1
  /\ UNCHANGED <<authVars, syncVars, items, entered, storeVars, queueVars, editingItem, trackVars,
                 alertVars, nextId, importVars>>

----
\* The whole application.
\* What the mounted App does: its handlers, and the callbacks and
\* continuations that end in its state setters.
AppStep ==
  \/ SignInStart
  \/ handleSignOut
  \/ \E t \in NewTitles, lat \in TargetLats : handleSaveNew(t, lat)
  \/ \E i \in DOMAIN items : initiateEdit(i)
  \/ handleModalClose
  \/ \E t \in Titles, lat \in TargetLats : handleSaveEdit(t, lat)
  \/ \E i \in DOMAIN items : toggleComplete(i)
  \/ \E i \in DOMAIN items : deleteItem(i)
  \/ \E n \in 1..MaxItems, t \in NewTitles, lat \in TargetLats : ingestItems(n, t, lat)
  \/ LocalComplete
  \/ LocalFail
  \/ toggleTracking
  \/ \E p \in PermissionStates : requestPermissionDone(p)
  \/ IntervalTick
  \/ \E lowAcc \in BOOLEAN, lat \in SampleLats, throws \in ThrowOutcomes :
       handleSuccess(lowAcc, lat, throws)
  \/ \E lowAcc \in BOOLEAN, code \in ErrorCodes : handleError(lowAcc, code)
  \/ dismissGeoError
  \/ \E tag \in Tags : handleAddBucket(tag)
  \/ \E tag \in Tags : handleAddInterest(tag)
  \/ \E file \in BackupFiles : handleFileChange(file)
  \/ readerOnload
  \/ Unmount

\* The timers of the cloud service, which run whether or not the App is mounted.
ServiceStep ==
  \/ SignInDone
  \/ SignOutDone
  \/ SubscriptionPush
  \/ CloudComplete

Next ==
  \/ Mounted /\ AppStep
  \/ ServiceStep
  \/ Tick

Spec == Init /\ [][Next]_vars

----
\* Local mode: the user never signs in.
InitLocal == Init /\ currentUser = NoUser

NextLocal ==
  \/ \E t \in NewTitles, lat \in TargetLats : handleSaveNew(t, lat)
  \/ \E i \in DOMAIN items : initiateEdit(i)
  \/ handleModalClose
  \/ \E t \in Titles, lat \in TargetLats : handleSaveEdit(t, lat)
  \/ \E i \in DOMAIN items : toggleComplete(i)
  \/ \E i \in DOMAIN items : deleteItem(i)
  \/ \E n \in 1..MaxItems, t \in NewTitles, lat \in TargetLats : ingestItems(n, t, lat)
  \/ LocalComplete
  \/ toggleTracking
  \/ IntervalTick
  \/ \E lat \in SampleLats, throws \in ThrowOutcomes : handleSuccess(FALSE, lat, throws)
  \/ Tick

SpecLocal == InitLocal /\ [][NextLocal]_vars

----
\* Remote mode: the session restored at start-up is kept; items are added,
\* completed and deleted while the tracker samples.
InitCloud == Init /\ currentUser = MockUid

NextCloud ==
  \/ SubscriptionPush
  \/ \E t \in NewTitles, lat \in TargetLats : handleSaveNew(t, lat)
  \/ \E i \in DOMAIN items : toggleComplete(i)
  \/ \E i \in DOMAIN items : deleteItem(i)
  \/ \E n \in 1..MaxItems, t \in NewTitles, lat \in TargetLats : ingestItems(n, t, lat)
  \/ LocalComplete
  \/ CloudComplete
  \/ toggleTracking
  \/ IntervalTick
  \/ \E lat \in SampleLats, throws \in ThrowOutcomes : handleSuccess(FALSE, lat, throws)

SpecCloud == InitCloud /\ [][NextCloud]_vars

----
\* The tracker with the items already loaded in local mode: the sampler, its
\* error handling and the evaluator.
SeedItem(id, completed, notified, lat) ==
  [id |-> id, title |-> IF id = 1 THEN "a" ELSE "b", targetLocation |-> Loc(lat),
   completed |-> completed, completedAt |-> IF completed THEN 1 ELSE Undefined,
   notified |-> notified, createdAt |-> 1, userId |-> NoUser]

SeedSets ==
  UNION {[1..n -> BOOLEAN \X BOOLEAN \X SeedLats] : n \in 1..MaxSeed}

SeedItems(f) == [i \in DOMAIN f |-> SeedItem(i, f[i][1], f[i][2], f[i][3])]

\* What the local store holds for an item of the item set: the latch itself
\* is not written, a later toggleComplete writes the whole item.
StoredCopy(item) == [item EXCEPT !.notified = item.notified /\ item.completed]

InitSeeded ==
  /\ currentUser = NoUser
  /\ authSubscribers = 1
  /\ authPending = {}
  /\ user = NoUser
  /\ localQueue = <<>>
  /\ unsubscribe = FALSE
  /\ subCount = 0
  /\ isCloudLoading = FALSE
  /\ \E f \in SeedSets :
       /\ items = SeedItems(f)
       /\ entered = DOMAIN f
       /\ localStore = [i \in DOMAIN f |-> StoredCopy(SeedItems(f)[i])]
       /\ nextId = Len(SeedItems(f)) + 1
  /\ cloudStore = <<>>
  /\ cloudQueue = <<>>
  /\ editingItem = NoItem
  /\ isTracking = FALSE
  /\ hiReqs = 0
  /\ loReqs = 0
  /\ currentLocation = NoLoc
  /\ geoError = NoGeoError
  /\ permissionStatus \in PermissionStates  \* mount effect: Notification.permission
  /\ permPending = FALSE
  /\ sent = [i \in Ids |-> <<>>]
  /\ shown = [i \in Ids |-> 0]
  /\ thrown = [i \in Ids |-> 0]
  /\ customBuckets = <<>>
  /\ customInterests = <<>>
  /\ importMsg = "null"
  /\ reading = NoFile
  /\ now = 1

InitTrack == InitSeeded /\ closurePermission = MountPermission

NextTrack ==
  \/ toggleTracking
  \/ \E p \in PermissionStates : requestPermissionDone(p)
  \/ IntervalTick
  \/ \E lowAcc \in BOOLEAN, lat \in SampleLats, throws \in ThrowOutcomes :
       handleSuccess(lowAcc, lat, throws)
  \/ \E lowAcc \in BOOLEAN, code \in ErrorCodes : handleError(lowAcc, code)
  \/ dismissGeoError

SpecTrack == InitTrack /\ [][NextTrack]_vars

----
\* Session transitions with items being added, ingested and deleted on either
\* backend, and tracking switched on and off (sign-out switches it off).
NextSession ==
  \/ SignInStart
  \/ SignInDone
  \/ handleSignOut
  \/ SignOutDone
  \/ SubscriptionPush
  \/ \E t \in NewTitles, lat \in TargetLats : handleSaveNew(t, lat)
  \/ \E i \in DOMAIN items : deleteItem(i)
  \/ \E n \in 1..MaxItems, t \in NewTitles, lat \in TargetLats : ingestItems(n, t, lat)
  \/ LocalComplete
  \/ CloudComplete
  \/ toggleTracking

SpecSession == Init /\ [][NextSession]_vars

----
\* The sampler alone, in local mode with an empty item set.
NextSampler ==
  \/ LocalComplete
  \/ toggleTracking
  \/ \E p \in PermissionStates : requestPermissionDone(p)
  \/ IntervalTick
  \/ \E lowAcc \in BOOLEAN, lat \in SampleLats, throws \in ThrowOutcomes :
       handleSuccess(lowAcc, lat, throws)
  \/ \E lowAcc \in BOOLEAN, code \in ErrorCodes : handleError(lowAcc, code)
  \/ dismissGeoError

SpecSampler == InitLocal /\ [][NextSampler]_vars

----
\* The sampler where the high-accuracy source never delivers a fix (no GPS
\* signal): every fix comes from a low-accuracy retry.
NextFallback ==
  \/ LocalComplete
  \/ toggleTracking
  \/ \E p \in PermissionStates : requestPermissionDone(p)
  \/ IntervalTick
  \/ \E lat \in SampleLats, throws \in ThrowOutcomes : handleSuccess(TRUE, lat, throws)
  \/ \E lowAcc \in BOOLEAN, code \in ErrorCodes : handleError(lowAcc, code)
  \/ dismissGeoError

SpecFallback == InitLocal /\ [][NextFallback]_vars

----
\* The evaluator and sendNotification as functions of what their closure
\* holds: the captured permissionStatus ranges over every permission state.
InitEvaluator == InitSeeded /\ closurePermission \in PermissionStates

NextEvaluator ==
  \/ toggleTracking
  \/ \E p \in PermissionStates : requestPermissionDone(p)
  \/ IntervalTick
  \/ \E lat \in SampleLats, throws \in ThrowOutcomes : handleSuccess(FALSE, lat, throws)

SpecEvaluator == InitEvaluator /\ [][NextEvaluator]_vars

----
\* Backup import in local mode, with items and custom tags being added.
NextImport ==
  \/ \E t \in NewTitles, lat \in TargetLats : handleSaveNew(t, lat)
  \/ LocalComplete
  \/ \E tag \in Tags : handleAddBucket(tag)
  \/ \E tag \in Tags : handleAddInterest(tag)
  \/ \E file \in BackupFiles : handleFileChange(file)
  \/ readerOnload

SpecImport == InitLocal /\ [][NextImport]_vars

----
\* Creation on either backend: the add form and ingestItems (demo loaders,
\* text and Takeout import), with the items then toggled and deleted.
NextCreate ==
  \/ \E t \in NewTitles, lat \in TargetLats : handleSaveNew(t, lat)
  \/ \E n \in 1..MaxItems, t \in NewTitles, lat \in TargetLats : ingestItems(n, t, lat)
  \/ \E i \in DOMAIN items : toggleComplete(i)
  \/ \E i \in DOMAIN items : deleteItem(i)
  \/ LocalComplete
  \/ CloudComplete
  \/ SubscriptionPush

SpecCreate == Init /\ [][NextCreate]_vars

----
\* Leaving a session: items created and toggled in remote mode, sign-out, and
\* toggles in local mode, with the completions of both backends.
NextHandover ==
  \/ SignInStart
  \/ SignInDone
  \/ handleSignOut
  \/ SignOutDone
  \/ SubscriptionPush
  \/ \E t \in NewTitles, lat \in TargetLats : handleSaveNew(t, lat)
  \/ \E i \in DOMAIN items : toggleComplete(i)
  \/ LocalComplete
  \/ CloudComplete

SpecHandover == Init /\ [][NextHandover]_vars

----
\* Local mode with a local store whose requests may fail, next to the one
\* failure the App does show: a geolocation error.
NextFailure ==
  \/ \E t \in NewTitles, lat \in TargetLats : handleSaveNew(t, lat)
  \/ \E i \in DOMAIN items : toggleComplete(i)
  \/ \E i \in DOMAIN items : deleteItem(i)
  \/ \E n \in 1..MaxItems, t \in NewTitles, lat \in TargetLats : ingestItems(n, t, lat)
  \/ LocalComplete
  \/ LocalFail
  \/ toggleTracking
  \/ IntervalTick
  \/ \E lowAcc \in BOOLEAN, code \in ErrorCodes : handleError(lowAcc, code)
  \/ dismissGeoError

SpecFailure == InitLocal /\ [][NextFailure]_vars

----
\* Unsubscribing: sessions, remote writes and the unmount of the App, whose
\* cleanups call the unsubscribe functions of onAuthChange and subscribeToItems
\* while service timers are still pending.
NextUnsubscribe ==
  \/ SignInStart
  \/ SignInDone
  \/ handleSignOut
  \/ SignOutDone
  \/ SubscriptionPush
  \/ Mounted /\ \E t \in NewTitles, lat \in TargetLats : handleSaveNew(t, lat)
  \/ Mounted /\ LocalComplete
  \/ CloudComplete
  \/ Unmount

SpecUnsubscribe == Init /\ [][NextUnsubscribe]_vars

----
\* Deleting on either backend, from an item set that already holds items: a
\* profile with earlier local work, or a restored session whose remote scope
\* holds items the subscription has delivered.
InitSeededCloud ==
  /\ currentUser = MockUid
  /\ authSubscribers = 1
  /\ authPending = {}
  /\ user = MockUid
  /\ localQueue = <<>>
  /\ unsubscribe = TRUE
  /\ subCount = 1
  /\ isCloudLoading = FALSE
  /\ \E f \in SeedSets :
       /\ cloudStore = [i \in DOMAIN f |->
                          [StoredCopy(SeedItems(f)[i]) EXCEPT !.userId = MockUid]]
       /\ items = cloudStore
       /\ entered = DOMAIN f
       /\ nextId = Len(SeedItems(f)) + 1
  /\ localStore = EmptyStore
  /\ cloudQueue = <<>>
  /\ editingItem = NoItem
  /\ isTracking = FALSE
  /\ hiReqs = 0
  /\ loReqs = 0
  /\ currentLocation = NoLoc
  /\ geoError = NoGeoError
  /\ permissionStatus = MountPermission
  /\ permPending = FALSE
  /\ closurePermission = MountPermission
  /\ sent = [i \in Ids |-> <<>>]
  /\ shown = [i \in Ids |-> 0]
  /\ thrown = [i \in Ids |-> 0]
  /\ customBuckets = <<>>
  /\ customInterests = <<>>
  /\ importMsg = "null"
  /\ reading = NoFile
  /\ now = 1

InitDelete == InitTrack \/ InitSeededCloud

NextDelete ==
  \/ \E i \in DOMAIN items : deleteItem(i)
  \/ LocalComplete
  \/ CloudComplete
  \/ SubscriptionPush

SpecDelete == InitDelete /\ [][NextDelete]_vars

----
\* The store methods called directly, as any caller of the two backends may:
\* MockCloudService.addItem / updateItem / deleteItem on the scope of MockUid,
\* and LocalDatabase.saveItem / deleteItem. The timers and requests are
\* taken to their completion.
ApiItems == {SeedItem(id, completed, FALSE, 0) : id \in Ids, completed \in BOOLEAN}

appVars == <<authVars, syncVars, items, entered, queueVars, editingItem, trackVars, alertVars,
             importVars, nextId, now>>

\* MockCloudService.addItem(userId, item)
addItem(item) ==
  /\ Len(cloudStore) < MaxStored
  /\ cloudStore' = MockAdd(cloudStore, MockUid, item)
  /\ UNCHANGED <<localStore, appVars>>

\* MockCloudService.updateItem(userId, item)
updateItem(item) ==
  /\ cloudStore' = ReplaceById(cloudStore, item)
  /\ UNCHANGED <<localStore, appVars>>

\* MockCloudService.deleteItem(userId, itemId)
cloudDeleteItem(itemId) ==
  /\ cloudStore' = RemoveById(cloudStore, itemId)
  /\ UNCHANGED <<localStore, appVars>>

\* LocalDatabase.saveItem(item)
saveItem(item) ==
  /\ localStore' = StorePut(localStore, item)
  /\ UNCHANGED <<cloudStore, appVars>>

\* LocalDatabase.deleteItem(id)
localDeleteItem(id) ==
  /\ localStore' = StoreDelete(localStore, id)
  /\ UNCHANGED <<cloudStore, appVars>>

NextStoreApi ==
  \/ \E item \in ApiItems : addItem(item)
  \/ \E item \in ApiItems : updateItem(item)
  \/ \E id \in Ids : cloudDeleteItem(id)
  \/ \E item \in ApiItems : saveItem(item)
  \/ \E id \in Ids : localDeleteItem(id)

SpecStoreApi == InitLocal /\ [][NextStoreApi]_vars

----
\* Properties.

ThresholdCm == PROXIMITY_THRESHOLD * CmPerMeter

\* A step in which a position fix is delivered to handleSuccess.
SuccessStep(lat) ==
  \E lowAcc \in BOOLEAN, throws \in ThrowOutcomes : handleSuccess(lowAcc, lat, throws)

\* C1: once an item of the in-memory item set has notified = true, the item
\* with that id never has notified = false in the next state of the item set.
C1_NotifiedNeverReverts ==
  [][\A i \in DOMAIN items : \A j \in DOMAIN items' :
       (items[i].id = items'[j].id /\ items[i].notified) => items'[j].notified]_vars

\* C2: sendNotification is invoked at most once for each item id.
C2_AtMostOneAlertPerItem == \A id \in Ids : Len(sent[id]) <= 1

\* C3: a position fix is handled (currentLocation set, evaluator run) only
\* while tracking is enabled.
C3_NoEvaluationWhileStopped ==
  [][\A lat \in SampleLats : SuccessStep(lat) => isTracking]_vars

\* C4: when the write of an edit or of a toggle-complete lands in the item
\* set, the fields of that item which the operation does not write keep the
\* value they have in the latest item set.
C4_WritesKeepOtherFields ==
  [][\A i \in DOMAIN items :
       (/\ LocalComplete
        /\ Head(localQueue).k = "save"
        /\ Head(localQueue).cont \in {"edit", "toggle"}
        /\ Head(localQueue).item.id = items[i].id)
       => /\ items'[i].notified = items[i].notified
          /\ Head(localQueue).cont = "toggle" =>
               /\ items'[i].title = items[i].title
               /\ items'[i].targetLocation = items[i].targetLocation
          /\ Head(localQueue).cont = "edit" =>
               /\ items'[i].completed = items[i].completed
               /\ items'[i].completedAt = items[i].completedAt]_vars

\* C5: at most one item subscription is live, and none is live while the
\* session is signed out (the local backend is the one loading).
C5_SingleSubscription ==
  /\ subCount <= 1
  /\ user = NoUser => subCount = 0

\* C5 witness: signed out after remote items existed; the local load is pending
\* and the remote poller is gone.
C5_Witness ==
  /\ user = NoUser
  /\ cloudStore # <<>>
  /\ localQueue # <<>> /\ Head(localQueue).k = "load"
  /\ subCount = 0

\* C6: a local-store operation that completes and writes the item set does so
\* only while the session is signed out.
C6_LocalWritesOnlyInLocalMode ==
  [][(LocalComplete /\ Head(localQueue).cont # "ingest") => user = NoUser]_vars

\* C7: a sample latches exactly the items that are not completed, not notified
\* and closer than 2000 m, and requests one alert with the title of each.
C7_LatchesExactlyEligible ==
  [][\A lat \in SampleLats : SuccessStep(lat) =>
       \A i \in DOMAIN items :
         LET it == items[i]
             near == calculateDistance(Loc(lat), it.targetLocation) < ThresholdCm
             qualifies == ~it.completed /\ ~it.notified /\ near
         IN /\ (~it.notified /\ items'[i].notified) <=> qualifies
            /\ sent'[it.id] = sent[it.id] \o (IF qualifies THEN <<it.title>> ELSE <<>>)]_vars

\* C7 witness: one sample latched the item 1999 m away, with one alert carrying
\* its title, and left the item 2000.4 m away alone.
C7_Witness ==
  /\ currentLocation = Loc(1799)
  /\ Len(items) = 2
  /\ items[1].targetLocation = Loc(0) /\ ~items[1].completed
  /\ ~items[1].notified /\ sent[1] = <<>>
  /\ items[2].targetLocation = Loc(1) /\ ~items[2].completed
  /\ items[2].notified /\ sent[2] = <<items[2].title>>

\* C8: a completed or already notified item is left unchanged by a sample and
\* no alert is requested for it; when no item qualifies the item set and the
\* alerts are unchanged.
C8_OthersPassThrough ==
  [][\A lat \in SampleLats : SuccessStep(lat) =>
       /\ \A i \in DOMAIN items :
            (items[i].completed \/ items[i].notified) =>
               /\ items'[i] = items[i]
               /\ sent'[items[i].id] = sent[items[i].id]
       /\ (\A i \in DOMAIN items :
             \/ items[i].completed
             \/ items[i].notified
             \/ calculateDistance(Loc(lat), items[i].targetLocation) >= ThresholdCm)
          => items' = items /\ sent' = sent]_vars

\* C8 witness: after a sample, a completed item within 2000 m is still not
\* notified and no alert was requested for it.
C8_Witness ==
  /\ currentLocation # NoLoc
  /\ \E i \in DOMAIN items :
       /\ items[i].completed /\ ~items[i].notified
       /\ calculateDistance(currentLocation, items[i].targetLocation) < ThresholdCm
       /\ sent[items[i].id] = <<>>

\* C9: a sample equal to the previous one, with the item set untouched in
\* between, changes no item and requests no alert.
C9_Idempotent ==
  [][\A lat \in SampleLats :
       (SuccessStep(lat) /\ currentLocation = Loc(lat)) => (items' = items /\ sent' = sent)]_vars

\* C9 witness: a sample has latched an item and the next request is in flight.
C9_Witness ==
  /\ currentLocation = Loc(1798)
  /\ isTracking /\ hiReqs = 1
  /\ items[1].notified /\ sent[1] = <<items[1].title>>

\* C10: an item that is notified in the item set is notified in the stored
\* copy of the active backend.
C10_LatchIsStored ==
  \A i \in DOMAIN items :
    items[i].notified =>
      IF user = NoUser
      THEN items[i].id \in DOMAIN localStore => localStore[items[i].id].notified
      ELSE \A j \in DOMAIN cloudStore :
             cloudStore[j].id = items[i].id => cloudStore[j].notified

\* C11: a Notification is constructed (whether it is shown or its constructor
\* throws) only in a step taken while the notification permission is 'granted'.
C11_AlertOnlyWhenGranted ==
  [][(\E id \in Ids : shown'[id] + thrown'[id] > shown[id] + thrown[id])
       => permissionStatus = "granted"]_vars

\* C11 witness: with the permission denied, sendNotification was called for an
\* item and no Notification was constructed.
C11_Witness ==
  /\ permissionStatus = "denied"
  /\ \E id \in Ids : sent[id] # <<>> /\ shown[id] = 0 /\ thrown[id] = 0

\* C12: when the Notification constructor throws during a sample, every item
\* that qualified (not completed, not notified, closer than 2000 m) still ends
\* the sample with notified = true, and sendNotification is still called for
\* every qualifying item of that sample.
C12_DispatchFailureKeepsLatch ==
  [][\A lat \in SampleLats :
       (\E lowAcc \in BOOLEAN : handleSuccess(lowAcc, lat, TRUE)) =>
         \A i \in DOMAIN items :
           (/\ ~items[i].completed
            /\ ~items[i].notified
            /\ calculateDistance(Loc(lat), items[i].targetLocation) < ThresholdCm)
           => /\ items'[i].notified
              /\ Len(sent'[items[i].id]) = Len(sent[items[i].id]) + 1]_vars

\* C12 witness: the constructor threw for each of two items of one item set,
\* and both are notified.
C12_Witness ==
  /\ Len(items) = 2
  /\ \A i \in DOMAIN items : items[i].notified /\ thrown[items[i].id] = 1

\* C13: a timeout of a high-accuracy request is answered by exactly one
\* low-accuracy request and surfaces nothing; every other failure (of the
\* low-accuracy request, or a non-timeout failure of the high-accuracy one)
\* is surfaced and issues no request.
C13_SingleFallbackRetry ==
  [][\A lowAcc \in BOOLEAN, code \in ErrorCodes :
       handleError(lowAcc, code) =>
         IF code = TIMEOUT /\ ~lowAcc
         THEN /\ hiReqs' = hiReqs - 1
              /\ loReqs' = loReqs + 1
              /\ geoError' = geoError
         ELSE /\ hiReqs' + loReqs' = hiReqs + loReqs - 1
              /\ hiReqs' <= hiReqs /\ loReqs' <= loReqs
              /\ geoError' = code]_vars

\* C13 witness: the timeout message is shown, which only the low-accuracy
\* retry's timeout sets, and no request is in flight.
C13_Witness ==
  /\ geoError = TIMEOUT
  /\ isTracking
  /\ hiReqs = 0 /\ loReqs = 0

\* C14: the timeout of a high-accuracy request writes nothing to the geo error
\* slot, and the success of its low-accuracy retry makes the retry's fix the
\* current location and leaves the slot empty.
C14_FallbackFixNoTimeoutError ==
  [][/\ handleError(FALSE, TIMEOUT) => geoError' = geoError
     /\ \A lat \in SampleLats :
          (\E throws \in BOOLEAN : handleSuccess(TRUE, lat, throws)) =>
             /\ currentLocation' = Loc(lat)
             /\ geoError' = NoGeoError]_vars

\* C14 witness: where only low-accuracy retries deliver fixes, a fix is the
\* current location, no error is shown and no request is in flight.
C14_Witness ==
  /\ currentLocation \in {Loc(lat) : lat \in SampleLats}
  /\ geoError = NoGeoError
  /\ isTracking
  /\ hiReqs = 0 /\ loReqs = 0

\* C15: a PERMISSION_DENIED failure of either request leaves tracking disabled,
\* tracking goes from disabled to enabled only by toggleTracking, and a
\* POSITION_UNAVAILABLE or TIMEOUT failure is reported and leaves the
\* tracking state as it was.
C15_OnlyDenialStopsTracking ==
  [][/\ \A lowAcc \in BOOLEAN :
          handleError(lowAcc, PERMISSION_DENIED) =>
            ~isTracking' /\ geoError' = PERMISSION_DENIED
     /\ (~isTracking /\ isTracking') => toggleTracking
     /\ \A lowAcc \in BOOLEAN :
          handleError(lowAcc, POSITION_UNAVAILABLE) =>
            isTracking' = isTracking /\ geoError' = POSITION_UNAVAILABLE
     /\ handleError(TRUE, TIMEOUT) =>
            isTracking' = isTracking /\ geoError' = TIMEOUT
     /\ handleError(FALSE, TIMEOUT) => isTracking' = isTracking]_vars

\* C15 witness: the permission-denied message is shown and tracking is off.
C15_Witness ==
  /\ geoError = PERMISSION_DENIED
  /\ ~isTracking
  /\ hiReqs = 0 /\ loReqs = 0

\* C16: a failure that is surfaced sets the geo error slot to its message, a
\* shown error can be dismissed and the dismissal empties the slot, and after
\* every successful sample the slot is empty.
C16_ErrorSlotSetDismissedCleared ==
  /\ [](geoError # NoGeoError => ENABLED dismissGeoError)
  /\ [][/\ \A lowAcc \in BOOLEAN, code \in ErrorCodes :
             (handleError(lowAcc, code) /\ ~(code = TIMEOUT /\ ~lowAcc)) => geoError' = code
        /\ dismissGeoError => geoError' = NoGeoError
        /\ \A lat \in SampleLats : SuccessStep(lat) => geoError' = NoGeoError]_vars

\* C16 witness: a sample has succeeded while tracking, the slot is empty and
\* the next request is in flight.
C16_Witness ==
  /\ currentLocation \in {Loc(lat) : lat \in SampleLats}
  /\ geoError = NoGeoError
  /\ isTracking /\ hiReqs = 1

\* C17: at most one sample request (high-accuracy or low-accuracy retry) is in
\* flight at any time: a tick's request is resolved before the next tick
\* issues its own.
C17_AtMostOneRequestInFlight == hiReqs + loReqs <= 1

\* C18: enabling tracking issues a request in the same step; while tracking is
\* enabled the interval can issue the next request whatever the geo error slot
\* holds (up to the bound on pending requests); and a request is issued only
\* by a step that ends with tracking enabled, so none is issued once tracking
\* is stopped.
C18_PollingFollowsTracking ==
  /\ []((isTracking /\ hiReqs < MaxReqs) => ENABLED IntervalTick)
  /\ [][/\ (~isTracking /\ isTracking') => hiReqs' = hiReqs + 1
        /\ hiReqs' > hiReqs => isTracking'
        /\ IntervalTick => isTracking]_vars

\* C18 witness: tracking is on, a position-unavailable or timeout message is
\* shown and the next periodic request is in flight.
C18_Witness ==
  /\ isTracking
  /\ geoError \in {POSITION_UNAVAILABLE, TIMEOUT}
  /\ hiReqs = 1 /\ loReqs = 0

\* C19: every item of the item set, and every stored copy, has completedAt
\* present exactly when completed is true.
C19_CompletedAtIffCompleted ==
  /\ \A i \in DOMAIN items : (items[i].completedAt # Undefined) <=> items[i].completed
  /\ \A id \in DOMAIN localStore :
       (localStore[id].completedAt # Undefined) <=> localStore[id].completed

\* C19 witness: an item was toggled to completed and carries its timestamp,
\* and the toggle back, with completedAt cleared, is waiting for its write.
C19_Witness ==
  /\ \E i \in DOMAIN items : items[i].completed /\ items[i].completedAt # Undefined
  /\ localQueue # <<>>
  /\ Head(localQueue).cont = "toggle"
  /\ ~Head(localQueue).item.completed
  /\ Head(localQueue).item.completedAt = Undefined

\* C20: when importBackup has read a backup whose items field is not an array,
\* the local store, the item set, the custom buckets and the custom interests
\* stay as they are, no store transaction is issued for that file, and the
\* error message is set.
C20_InvalidBackupRejected ==
  /\ [](\A k \in DOMAIN localQueue :
          localQueue[k].k = "import" => localQueue[k].data.items.isArray)
  /\ [][(readerOnload /\ ~reading.items.isArray) =>
          /\ localStore' = localStore
          /\ localQueue' = localQueue
          /\ items' = items
          /\ customBuckets' = customBuckets
          /\ customInterests' = customInterests
          /\ importMsg' = "error"]_vars

\* C20 witness: an import was rejected (the error message is set, nothing is
\* being read or written) and the stored item, the item set and the custom
\* tags are still there.
C20_Witness ==
  /\ importMsg = "error"
  /\ reading = NoFile /\ localQueue = <<>>
  /\ Len(items) = 1 /\ items[1].id \in DOMAIN localStore
  /\ items[1].title = "a"
  /\ customBuckets = <<"trip">> /\ customInterests = <<"trip">>

\* C21: add and update are upserts by item id on the remote store, and save
\* is one on the local store: after the call the store holds exactly one
\* entry for the item's id, and a call with an item the store already holds
\* as that call left it changes nothing.
C21_UpsertById ==
  [][\A item \in ApiItems :
       LET stored == [item EXCEPT !.userId = MockUid]
           entries(store) == {k \in DOMAIN store : store[k].id = item.id}
       IN /\ addItem(item) =>
               /\ Cardinality(entries(cloudStore')) = 1
               /\ (\E k \in DOMAIN cloudStore : cloudStore[k] = stored)
                     => cloudStore' = cloudStore
          /\ updateItem(item) =>
               /\ Cardinality(entries(cloudStore')) = 1
               /\ (\E k \in DOMAIN cloudStore : cloudStore[k] = item)
                     => cloudStore' = cloudStore
          /\ saveItem(item) =>
               /\ item.id \in DOMAIN localStore'
               /\ (item.id \in DOMAIN localStore /\ localStore[item.id] = item)
                     => localStore' = localStore]_vars

\* C22: a delete of an id that the backend does not hold changes neither the
\* store nor the item set, on the local store and on the remote store.
C22_DeleteAbsentIsNoOp ==
  [][/\ (/\ LocalComplete
          /\ Head(localQueue).k = "delete"
          /\ Head(localQueue).item.id \notin DOMAIN localStore)
         => (localStore' = localStore /\ items' = items)
     /\ (/\ CloudComplete
          /\ Head(cloudQueue).k = "delete"
          /\ \A k \in DOMAIN cloudStore : cloudStore[k].id # Head(cloudQueue).item.id)
         => (cloudStore' = cloudStore /\ items' = items)]_vars

\* A delete of an id its backend no longer holds is about to complete while
\* the backend still holds another item.
C22_Witness ==
  \/ /\ localQueue # <<>>
     /\ Head(localQueue).k = "delete"
     /\ Head(localQueue).item.id \notin DOMAIN localStore
     /\ items # <<>>
     /\ DOMAIN localStore # {}
  \/ /\ cloudQueue # <<>>
     /\ Head(cloudQueue).k = "delete"
     /\ \A k \in DOMAIN cloudStore : cloudStore[k].id # Head(cloudQueue).item.id
     /\ cloudStore # <<>>

\* C23: once the unsubscribe function of subscribeToItems has returned (the
\* cleanup of the Data Sync effect, at sign-out or unmount) the items callback
\* is not invoked again, and once the unsubscribe function of onAuthChange
\* has returned (unmount) the auth callback is not invoked again, whatever
\* remote writes and auth changes follow.
C23_NoCallbackAfterUnsubscribe ==
  [][/\ SubscriptionPush => unsubscribe
     /\ authSubscribers = 0 => (user' = user /\ items' = items)]_vars

\* Both unsubscribe functions have returned; afterwards the pending sign-out
\* changed the session and a pending remote add was written, and neither
\* reached the callbacks.
C23_Witness ==
  /\ authSubscribers = 0
  /\ subCount = 0
  /\ currentUser = NoUser
  /\ user = MockUid
  /\ cloudQueue = <<>>
  /\ cloudStore # <<>>
  /\ items = <<>>

\* C24: an item that enters the item set for the first time (its id has not
\* been in the item set before), whether created by the add form or by
\* ingestItems, enters with completed = false and notified = false.
C24_CreatedItemsEnterUnset ==
  [][\A j \in DOMAIN items' :
       items'[j].id \notin entered
         => (~items'[j].completed /\ ~items'[j].notified)]_vars

\* An item created in remote mode has been delivered by the subscription
\* and is in the item set as it was created.
C24_Witness ==
  /\ user # NoUser
  /\ \E j \in DOMAIN items :
       /\ items[j].id \in entered
       /\ items[j].userId = MockUid
       /\ ~items[j].completed
       /\ ~items[j].notified

\* C25: every item held in the remote scope of an identity carries that
\* identity as its userId, and every item held in the local store carries
\* no userId.
C25_UserIdIffRemote ==
  /\ \A k \in DOMAIN cloudStore : cloudStore[k].userId = MockUid
  /\ \A id \in DOMAIN localStore : localStore[id].userId = NoUser

\* The error states the App can show: the geolocation error slot and the
\* message of the settings dialog.
ErrorShown == geoError # NoGeoError \/ importMsg = "error"

\* C26: when a request of the local store fails (the initial load, a save or
\* a delete), the App shows an error state afterwards and the item set keeps
\* every item it had.
C26_LocalFailureSurfaced ==
  [][(LocalFail /\ Head(localQueue).k \in {"load", "save", "delete"})
       => (ErrorShown' /\ \A i \in DOMAIN items : items[i].id \in ItemIds(items'))]_vars

\* C27: a toggle-complete flips the completed value the item has when the
\* toggle's write is applied, in the item set (local mode) and in the remote
\* store (remote mode); two toggles in quick succession therefore restore
\* the original value.
C27_ToggleFlipsCurrentValue ==
  [][/\ (LocalComplete /\ Head(localQueue).k = "save" /\ Head(localQueue).cont = "toggle")
         => \A i \in DOMAIN items : \A j \in DOMAIN items' :
              (items[i].id = Head(localQueue).item.id /\ items'[j].id = items[i].id)
                => items'[j].completed = ~items[i].completed
     /\ (CloudComplete /\ Head(cloudQueue).k = "update" /\ Head(cloudQueue).cont = "toggle")
         => \A i \in DOMAIN cloudStore : \A j \in DOMAIN cloudStore' :
              (cloudStore[i].id = Head(cloudQueue).item.id /\ cloudStore'[j].id = cloudStore[i].id)
                => cloudStore'[j].completed = ~cloudStore[i].completed]_vars

\* C28: when a sample latches an item while the notification permission is
\* 'granted' at that moment, a Notification is constructed for that item in
\* the same step.
C28_GateIsCurrentPermission ==
  [][\A lat \in SampleLats :
       (SuccessStep(lat) /\ permissionStatus = "granted") =>
         \A i \in DOMAIN items :
           (~items[i].notified /\ items'[i].notified)
             => shown'[items[i].id] + thrown'[items[i].id]
                  > shown[items[i].id] + thrown[items[i].id]]_vars

\* C29: the latch does not depend on the permission: a sample taken while
\* notifications are not permitted sets notified on every item that
\* qualifies and constructs no Notification, and an item whose notified is
\* set is left as it is by every later sample, with no further
\* sendNotification call for it.
C29_LatchIgnoresPermission ==
  [][\A lat \in SampleLats :
       SuccessStep(lat) =>
         \A i \in DOMAIN items :
           /\ (permissionStatus # "granted" /\ Eligible(items[i], Loc(lat)))
                => /\ items'[i].notified
                   /\ shown' = shown
                   /\ thrown' = thrown
           /\ items[i].notified
                => /\ items'[i] = items[i]
                   /\ sent'[items[i].id] = sent[items[i].id]]_vars

\* With the permission denied and tracking on, a sample in range latched an
\* item: sendNotification was called once for it, no Notification was
\* constructed, and the item is still not completed.
C29_Witness ==
  /\ permissionStatus = "denied"
  /\ isTracking
  /\ currentLocation # NoLoc
  /\ \E i \in DOMAIN items :
       /\ items[i].notified
       /\ ~items[i].completed
       /\ calculateDistance(currentLocation, items[i].targetLocation) < ThresholdCm
       /\ Len(sent[items[i].id]) = 1
       /\ shown[items[i].id] = 0
       /\ thrown[items[i].id] = 0

\* C30: in local mode, when no request of the local store is pending, the
\* ids in the item set are exactly the ids in the local store.
C30_QuiescentSetsAgree ==
  (user = NoUser /\ localQueue = <<>>) => ItemIds(items) = DOMAIN localStore

====
